---- MODULE Spec2Model ----
(***************************************************************************)
(* MCPConnectionPool (src/mcp_client/client.py) as driven by the HTTP      *)
(* handlers of src/app.py.  Caller threads run the handlers; every Python  *)
(* statement that touches shared pool state is one step, so handlers that  *)
(* do not take self.lock (initialize_pool, cleanup_pool) interleave with   *)
(* the locked ones (get_client, return_client) statement by statement.     *)
(***************************************************************************)
EXTENDS Integers, Sequences, FiniteSets, TLC

VARIABLES
    available,     \* self.available: list of sessions, newest last
    in_use,        \* self.in_use: set of sessions
    lock,          \* self.lock: 0 when free, else the thread holding it
    initialized,   \* self.initialized
    event_loop,    \* self._event_loop: 0 for None, else a loop id
    cleanup_done,  \* self._cleanup_done
    connected,     \* connected[c]: MCPClient.connected of session c
    loop_state,    \* loop_state[l]: LoopIdle, LoopClosed, or the thread running loop l
    pc,            \* pc[t]: the statement thread t executes next
    op,            \* op[t]: the handler thread t is running
    co,            \* co[t]: the coroutine thread t handed to _run_async
    client,        \* client[t]: local `client` of process_resume_request (0 = None)
    i,             \* i[t]: connect attempts made by thread t's _init loop
    all_clients,   \* all_clients[t]: cleanup_pool's snapshot still to be visited
    cancelled,     \* cancelled[t]: task.cancel() reached thread t's running task
    result,        \* result[t]: what the handler hands back to its caller
    calls,         \* handler invocations started so far, per kind
    used,          \* threads 1..used have started a handler
    \* MCPClient.process_query (one call of the coroutine)
    qpc,                   \* the statement the coroutine executes next
    messages,              \* messages: the conversation so far
    available_tools,       \* names of available_tools (from list_tools)
    iteration,             \* iteration
    response,              \* response.content of the latest messages.create
    tool_calls,            \* tool_calls still to be executed in this round
    tool_result_contents,  \* tool_result_contents of this round
    url,                   \* url: 0 for '', else an artifact reference
    query_result,          \* what process_query handed back
    variations,            \* input choices off the plain path made so far
    \* check_rate_limit of app.py
    request_counts,        \* request_counts[ip]: list of admission times
    clock,                 \* what time.time() returns
    rpc,                   \* rpc[t]: the statement caller t executes next
    client_ip,             \* client_ip[t]: argument of caller t
    now,                   \* now[t]: local `now` of caller t
    admitted,              \* admitted[t]: what check_rate_limit returned to t
    \* tailor_resume of app.py
    condition,             \* condition[t]: what happened while serving caller t
    http_response          \* http_response[t]: what tailor_resume answered

query_vars == <<qpc, messages, available_tools, iteration, response, tool_calls,
                tool_result_contents, url, query_result, variations>>

handler_vars == <<condition, http_response>>

rate_vars == <<request_counts, clock, rpc, client_ip, now, admitted,
               handler_vars>>

server_vars == <<available, in_use, lock, initialized, event_loop, cleanup_done,
                 connected, loop_state, pc, op, co, client, i, all_clients,
                 cancelled, result, calls, used>>

vars == <<available, in_use, lock, initialized, event_loop, cleanup_done,
          connected, loop_state, pc, op, co, client, i, all_clients,
          cancelled, result, calls, used, query_vars, rate_vars>>

pool_vars == <<available, in_use, lock, initialized, event_loop, cleanup_done,
               connected, loop_state>>

----------------------------------------------------------------------------
(* Bounds and program constants *)

NThreads == 2
MaxRequests == 2
MaxAdmin == 2

pool_size == 3

LoopIdle == 0
LoopClosed == -1

Threads == 1..NThreads
Sessions == 1..Len(connected)

Ops == {"init", "request", "reconnect", "cleanup"}

\* request.client.host of the callers of /tailor_resume
Addresses == {"10.0.0.1"}

----------------------------------------------------------------------------
(* Helpers *)

RECURSIVE SeqToSet(_)
SeqToSet(s) == IF s = <<>> THEN {} ELSE {Head(s)} \cup SeqToSet(Tail(s))

RECURSIVE Orders(_)
\* every order in which a set can be listed (list(self.in_use))
Orders(S) ==
    IF S = {} THEN {<<>>}
    ELSE UNION {{<<x>> \o r : r \in Orders(S \ {x})} : x \in S}

Count(s, x) == Cardinality({k \in 1..Len(s) : s[k] = x})

Solo(t) == used <= 1 /\ t = 1

InitLocals(t) ==
    /\ pc' = [pc EXCEPT ![t] = "idle"]
    /\ op' = [op EXCEPT ![t] = "none"]
    /\ co' = [co EXCEPT ![t] = "none"]
    /\ client' = [client EXCEPT ![t] = 0]
    /\ i' = [i EXCEPT ![t] = 0]
    /\ all_clients' = [all_clients EXCEPT ![t] = <<>>]
    /\ result' = [result EXCEPT ![t] = "none"]

Goto(t, label) == pc' = [pc EXCEPT ![t] = label]

Init ==
    /\ available = <<>>
    /\ in_use = {}
    /\ lock = 0
    /\ initialized = FALSE
    /\ event_loop = 0
    /\ cleanup_done = FALSE
    /\ connected = <<>>
    /\ loop_state = <<>>
    /\ pc = [t \in Threads |-> "idle"]
    /\ op = [t \in Threads |-> "none"]
    /\ co = [t \in Threads |-> "none"]
    /\ client = [t \in Threads |-> 0]
    /\ i = [t \in Threads |-> 0]
    /\ all_clients = [t \in Threads |-> <<>>]
    /\ cancelled = [t \in Threads |-> FALSE]
    /\ result = [t \in Threads |-> "none"]
    /\ calls = [request |-> 0, admin |-> 0]
    /\ used = 0
    /\ qpc = "start"
    /\ messages = <<>>
    /\ available_tools = {}
    /\ iteration = 0
    /\ response = <<>>
    /\ tool_calls = <<>>
    /\ tool_result_contents = <<>>
    /\ url = 0
    /\ query_result = [type |-> "none"]
    /\ variations = 0
    /\ request_counts = [ip \in Addresses |-> <<>>]
    /\ clock = 0
    /\ rpc = [t \in Threads |-> "idle"]
    /\ client_ip = [t \in Threads |-> "none"]
    /\ now = [t \in Threads |-> 0]
    /\ admitted = [t \in Threads |-> "none"]
    /\ condition = [t \in Threads |-> [valid |-> TRUE, pool |-> "none"]]
    /\ http_response = [t \in Threads |-> [status |-> 0, body |-> <<>>]]

----------------------------------------------------------------------------
(* Handler entry: a caller thread starts one of the handlers of app.py *)

\* tailor_resume calls are counted apart from the administrative handlers
\* (startup_event, force_reconnect, cleanup_resources)
Kind(o) == IF o = "request" THEN "request" ELSE "admin"
Budget(o) == IF o = "request" THEN MaxRequests ELSE MaxAdmin

FirstLabel(o) ==
    CASE o = "init" -> "init_check"
      [] o = "request" -> "get_lock"
      [] o = "reconnect" -> "cl_check"
      [] o = "cleanup" -> "cl_check"

\* Threads are interchangeable: thread t starts its first handler only after
\* thread t-1 has (a symmetry reduction, no behaviour is lost).
Start(t, o) ==
    /\ pc[t] = "idle"
    /\ calls[Kind(o)] < Budget(o)
    /\ t <= used + 1
    /\ calls' = [calls EXCEPT ![Kind(o)] = @ + 1]
    /\ used' = IF t > used THEN t ELSE used
    /\ pc' = [pc EXCEPT ![t] = FirstLabel(o)]
    /\ op' = [op EXCEPT ![t] = o]
    /\ UNCHANGED <<pool_vars, co, client, i, all_clients, cancelled, result,
                   query_vars, rate_vars>>

\* The handler returns to its caller; its locals die.
ReturnLabels == {"op_return", "ret_noop", "ret_returned", "ret_dropped", "ret_raised"}

Return(t) ==
    /\ pc[t] \in ReturnLabels
    /\ InitLocals(t)
    /\ UNCHANGED <<pool_vars, cancelled, calls, used,
                   query_vars, rate_vars>>

\* An exception leaves the handler (or the handler finishes) with outcome r.
Finish(t, r) ==
    /\ pc' = [pc EXCEPT ![t] = "op_return"]
    /\ result' = [result EXCEPT ![t] = r]

----------------------------------------------------------------------------
(* MCPConnectionPool._run_async *)

StopLoop(t) ==
    loop_state' = [l \in DOMAIN loop_state |->
                     IF loop_state[l] = t THEN LoopIdle ELSE loop_state[l]]

\* line 146: if self._event_loop is None
RaCheck(t) ==
    /\ pc[t] = "ra_check"
    /\ Goto(t, IF event_loop = 0 THEN "ra_new" ELSE "ra_run")
    /\ UNCHANGED <<pool_vars, op, co, client, i, all_clients, cancelled, result,
                   calls, used,
                   query_vars, rate_vars>>

\* lines 147-151: a caller thread has no current loop, get_event_loop raises
\* RuntimeError and a new loop is created and stored
RaNewLoop(ls) == Append(ls, LoopIdle)

RaNew(t) ==
    /\ pc[t] = "ra_new"
    /\ loop_state' = RaNewLoop(loop_state)
    /\ event_loop' = Len(loop_state')
    /\ Goto(t, "ra_run")
    /\ UNCHANGED <<available, in_use, lock, initialized, cleanup_done, connected,
                   op, co, client, i, all_clients, cancelled, result, calls, used,
                   query_vars, rate_vars>>

\* where a RuntimeError raised by run_until_complete goes, per caller:
\* initialize_pool lets it out (force_reconnect turns it into HTTP 500),
\* process_resume_request's except Exception (228) makes it an error string and
\* runs the finally, return_client's except Exception (195) drops the session.
RaRaise(t) ==
    CASE co[t] = "init" ->
            /\ Finish(t, IF op[t] = "reconnect" THEN "http500" ELSE "raised")
            /\ UNCHANGED <<lock, co>>
      [] co[t] = "query" ->
            /\ Goto(t, "ret_lock")
            /\ result' = [result EXCEPT ![t] = "err_processing"]
            /\ co' = [co EXCEPT ![t] = "none"]
            /\ UNCHANGED lock
      [] co[t] = "connect" ->
            /\ Goto(t, "ret_dropped")
            /\ lock' = 0
            /\ UNCHANGED <<result, co>>

FirstCoLabel(c) ==
    CASE c = "init" -> "init_loop"
      [] c = "query" -> "q_run"
      [] c = "connect" -> "rc_run"

\* line 153: run_until_complete refuses a closed loop and a loop that is
\* already running; otherwise the coroutine starts on self._event_loop
LoopUsable(l) == loop_state[l] = LoopIdle

RaRun(t) ==
    /\ pc[t] = "ra_run"
    /\ IF LoopUsable(event_loop)
         THEN /\ loop_state' = [loop_state EXCEPT ![event_loop] = t]
              /\ Goto(t, FirstCoLabel(co[t]))
              /\ UNCHANGED <<lock, co, result>>
         ELSE /\ RaRaise(t)
              /\ UNCHANGED loop_state
    /\ UNCHANGED <<available, in_use, initialized, event_loop, cleanup_done,
                   connected, op, client, i, all_clients, cancelled, calls, used,
                   query_vars, rate_vars>>

\* CancelledError (a BaseException) ends the running coroutine: no
\* `except Exception` catches it; `with self.lock` and `finally` still run.
CoCancelled(t) ==
    /\ cancelled[t]
    /\ StopLoop(t)
    /\ cancelled' = [cancelled EXCEPT ![t] = FALSE]
    /\ CASE co[t] = "init" -> /\ Finish(t, "raised")
                              /\ UNCHANGED <<lock, co>>
         [] co[t] = "query" -> /\ Goto(t, "ret_lock")
                               /\ result' = [result EXCEPT ![t] = "raised"]
                               /\ co' = [co EXCEPT ![t] = "none"]
                               /\ UNCHANGED lock
         [] co[t] = "connect" -> /\ Goto(t, "ret_raised")
                                 /\ result' = [result EXCEPT ![t] = "raised"]
                                 /\ lock' = 0
                                 /\ UNCHANGED co

Cancelled(t) ==
    /\ pc[t] \in {"init_loop", "q_run", "rc_run"}
    /\ CoCancelled(t)
    /\ UNCHANGED <<available, in_use, initialized, event_loop, cleanup_done,
                   connected, op, client, i, all_clients, calls, used,
                   query_vars, rate_vars>>

----------------------------------------------------------------------------
(* MCPConnectionPool.initialize_pool *)

\* line 157: if self.initialized: return
\* faulty variant: the flag is not consulted
InitGuard_never(init) == FALSE

InitGuard(init) == init

InitCheck(t) ==
    /\ pc[t] = "init_check"
    /\ IF InitGuard(initialized)
         THEN /\ Finish(t, "ok")
              /\ UNCHANGED co
         ELSE /\ Goto(t, "ra_check")
              /\ co' = [co EXCEPT ![t] = "init"]
              /\ UNCHANGED result
    /\ UNCHANGED <<pool_vars, op, client, i, all_clients, cancelled, calls, used,
                   query_vars, rate_vars>>

\* lines 161-168: one iteration of _init. A session that connects is appended
\* to self.available; one that fails is logged and forgotten (it is referenced
\* by nothing afterwards, so it gets no identity here).
\* faulty variant: the list is overwritten instead of extended
InitAppend_replace(avail, c) == <<c>>

InitAppend(avail, c) == Append(avail, c)

InitLoop(t) ==
    /\ pc[t] = "init_loop"
    /\ ~cancelled[t]
    /\ i[t] < pool_size
    /\ i' = [i EXCEPT ![t] = i[t] + 1]
    /\ \E ok \in BOOLEAN :
          IF ok
            THEN /\ connected' = Append(connected, TRUE)
                 /\ available' = InitAppend(available, Len(connected) + 1)
            ELSE UNCHANGED <<connected, available>>
    /\ UNCHANGED <<in_use, lock, initialized, event_loop, cleanup_done, loop_state,
                   pc, op, co, client, all_clients, cancelled, result, calls, used,
                   query_vars, rate_vars>>

\* line 170: _init is over, run_until_complete returns
InitEnd(t) ==
    /\ pc[t] = "init_loop"
    /\ ~cancelled[t]
    /\ i[t] = pool_size
    /\ StopLoop(t)
    /\ Goto(t, "init_set")
    /\ UNCHANGED <<available, in_use, lock, initialized, event_loop, cleanup_done,
                   connected, op, co, client, i, all_clients, cancelled, result,
                   calls, used,
                   query_vars, rate_vars>>

\* line 171: self.initialized = True
InitSet(t) ==
    /\ pc[t] = "init_set"
    /\ initialized' = TRUE
    /\ Finish(t, "ok")
    /\ UNCHANGED <<available, in_use, lock, event_loop, cleanup_done, connected,
                   loop_state, op, co, client, i, all_clients, cancelled, calls, used,
                   query_vars, rate_vars>>

----------------------------------------------------------------------------
(* MCPConnectionPool.get_client, called at line 200 *)

\* line 176: with self.lock
GetLock(t) ==
    /\ pc[t] = "get_lock"
    /\ lock = 0
    /\ lock' = t
    /\ Goto(t, "get_check")
    /\ UNCHANGED <<available, in_use, initialized, event_loop, cleanup_done,
                   connected, loop_state, op, co, client, i, all_clients, cancelled,
                   result, calls, used,
                   query_vars, rate_vars>>

\* lines 177-178: if not self.available: return None; process_resume_request
\* then returns its "Error: No available MCP connections" string (201-202)
\* faulty variant: the emptiness test is missing
NoneAvailable_never(avail) == FALSE

NoneAvailable(avail) == avail = <<>>

GetCheck(t) ==
    /\ pc[t] = "get_check"
    /\ IF NoneAvailable(available)
         THEN /\ lock' = 0
              /\ Finish(t, "no_conn")
         ELSE /\ Goto(t, "get_pop")
              /\ UNCHANGED <<lock, result>>
    /\ UNCHANGED <<available, in_use, initialized, event_loop, cleanup_done,
                   connected, loop_state, op, co, client, i, all_clients, cancelled,
                   calls, used,
                   query_vars, rate_vars>>

\* line 179: client = self.available.pop(); on a list emptied since line 177
\* pop raises IndexError, which leaves the with block and the handler
\* faulty variant: the session is read but left in the list
PopRest_peek(avail) == avail

PopRest(avail) == SubSeq(avail, 1, Len(avail) - 1)
PopLast(avail) == avail[Len(avail)]

GetPop(t) ==
    /\ pc[t] = "get_pop"
    /\ IF available = <<>>
         THEN /\ lock' = 0
              /\ Finish(t, "raised")
              /\ UNCHANGED <<available, client>>
         ELSE /\ client' = [client EXCEPT ![t] = PopLast(available)]
              /\ available' = PopRest(available)
              /\ Goto(t, "get_add")
              /\ UNCHANGED <<lock, result>>
    /\ UNCHANGED <<in_use, initialized, event_loop, cleanup_done, connected,
                   loop_state, op, co, i, all_clients, cancelled, calls, used,
                   query_vars, rate_vars>>

\* lines 180-181: self.in_use.add(client); return client. The caller goes on
\* to line 225, self._run_async(client.process_query(query)).
GetAdd(t) ==
    /\ pc[t] = "get_add"
    /\ in_use' = in_use \cup {client[t]}
    /\ lock' = 0
    /\ co' = [co EXCEPT ![t] = "query"]
    /\ Goto(t, "ra_check")
    /\ UNCHANGED <<available, initialized, event_loop, cleanup_done, connected,
                   loop_state, op, client, i, all_clients, cancelled, result,
                   calls, used,
                   query_vars, rate_vars>>

----------------------------------------------------------------------------
(* process_resume_request, lines 225-231 *)

\* line 225: process_query runs to its end on the loop: it returns the url
\* string, or one of its calls raises and line 228 makes it an error string.
\* Either way the finally of line 230 calls return_client.
\* faulty variant: return_client only on the success path (no finally)
QueryEnd_nofinally(t, r) ==
    /\ result' = [result EXCEPT ![t] = r]
    /\ Goto(t, IF r = "url" THEN "ret_lock" ELSE "op_return")

QueryEnd(t, r) ==
    /\ result' = [result EXCEPT ![t] = r]
    /\ Goto(t, "ret_lock")

QRun(t) ==
    /\ pc[t] = "q_run"
    /\ ~cancelled[t]
    /\ StopLoop(t)
    /\ \E r \in {"url", "err_processing"} : QueryEnd(t, r)
    /\ co' = [co EXCEPT ![t] = "none"]
    /\ UNCHANGED <<available, in_use, lock, initialized, event_loop, cleanup_done,
                   connected, op, client, i, all_clients, cancelled, calls, used,
                   query_vars, rate_vars>>

----------------------------------------------------------------------------
(* MCPConnectionPool.return_client, called from the finally at line 231 *)

\* line 185: with self.lock
RetLock(t) ==
    /\ pc[t] = "ret_lock"
    /\ lock = 0
    /\ lock' = t
    /\ Goto(t, "ret_check")
    /\ UNCHANGED <<available, in_use, initialized, event_loop, cleanup_done,
                   connected, loop_state, op, co, client, i, all_clients, cancelled,
                   result, calls, used,
                   query_vars, rate_vars>>

\* line 186: if client in self.in_use (no else branch)
\* faulty variant: the membership test is missing
RetMember_always(c, inuse) == TRUE

RetMember(c, inuse) == c \in inuse

RetCheck(t) ==
    /\ pc[t] = "ret_check"
    /\ IF RetMember(client[t], in_use)
         THEN /\ Goto(t, "ret_remove")
              /\ UNCHANGED lock
         ELSE /\ Goto(t, "ret_noop")
              /\ lock' = 0
    /\ UNCHANGED <<available, in_use, initialized, event_loop, cleanup_done,
                   connected, loop_state, op, co, client, i, all_clients, cancelled,
                   result, calls, used,
                   query_vars, rate_vars>>

\* line 187: self.in_use.remove(client); KeyError when the set lost the
\* session since line 186. The error leaves the with block, the finally
\* and the handler.
\* faulty variant: the session is appended without leaving in_use
RemoveInUse_keep(inuse, c) == inuse

RemoveInUse(inuse, c) == inuse \ {c}

RetRemove(t) ==
    /\ pc[t] = "ret_remove"
    /\ IF client[t] \in in_use
         THEN /\ in_use' = RemoveInUse(in_use, client[t])
              /\ Goto(t, "ret_conn")
              /\ UNCHANGED <<lock, result>>
         ELSE /\ lock' = 0
              /\ Goto(t, "ret_raised")
              /\ result' = [result EXCEPT ![t] = "raised"]
              /\ UNCHANGED in_use
    /\ UNCHANGED <<available, initialized, event_loop, cleanup_done, connected,
                   loop_state, op, co, client, i, all_clients, cancelled, calls, used,
                   query_vars, rate_vars>>

\* line 188: if client.connected; else line 193 hands connect_to_server to
\* _run_async
RetConn(t) ==
    /\ pc[t] = "ret_conn"
    /\ IF connected[client[t]]
         THEN /\ Goto(t, "ret_append")
              /\ UNCHANGED co
         ELSE /\ Goto(t, "ra_check")
              /\ co' = [co EXCEPT ![t] = "connect"]
    /\ UNCHANGED <<pool_vars, op, client, i, all_clients, cancelled, result,
                   calls, used,
                   query_vars, rate_vars>>

\* line 189 (and line 194 after a reconnect): self.available.append(client)
RetAppend(t) ==
    /\ pc[t] = "ret_append"
    /\ available' = Append(available, client[t])
    /\ lock' = 0
    /\ Goto(t, "ret_returned")
    /\ UNCHANGED <<in_use, initialized, event_loop, cleanup_done, connected,
                   loop_state, op, co, client, i, all_clients, cancelled, result,
                   calls, used,
                   query_vars, rate_vars>>

\* line 193: connect_to_server runs to its end on the loop: it sets
\* client.connected (line 46), or raises and line 195 drops the session
RcRun(t) ==
    /\ pc[t] = "rc_run"
    /\ ~cancelled[t]
    /\ StopLoop(t)
    /\ \E ok \in BOOLEAN :
          IF ok
            THEN /\ connected' = [connected EXCEPT ![client[t]] = TRUE]
                 /\ Goto(t, "ret_append")
                 /\ UNCHANGED lock
            ELSE /\ Goto(t, "ret_dropped")
                 /\ lock' = 0
                 /\ UNCHANGED connected
    /\ UNCHANGED <<available, in_use, initialized, event_loop, cleanup_done,
                   op, co, client, i, all_clients, cancelled, result, calls, used,
                   query_vars, rate_vars>>

----------------------------------------------------------------------------
(* MCPConnectionPool.cleanup_pool, called by force_reconnect (line 100) and
   cleanup_resources (line 110); it never takes self.lock *)

\* after cleanup_pool: force_reconnect goes on to initialize_pool (line 101),
\* cleanup_resources returns
CleanupExit(t) ==
    IF op[t] = "reconnect"
      THEN /\ Goto(t, "init_check")
           /\ UNCHANGED result
      ELSE Finish(t, "ok")

\* lines 235-236: if self._cleanup_done: return
ClCheck(t) ==
    /\ pc[t] = "cl_check"
    /\ IF cleanup_done
         THEN CleanupExit(t)
         ELSE /\ Goto(t, "cl_set")
              /\ UNCHANGED result
    /\ UNCHANGED <<pool_vars, op, co, client, i, all_clients, cancelled, calls, used,
                   query_vars, rate_vars>>

\* line 238: self._cleanup_done = True
ClSet(t) ==
    /\ pc[t] = "cl_set"
    /\ cleanup_done' = TRUE
    /\ Goto(t, "cl_snap")
    /\ UNCHANGED <<available, in_use, lock, initialized, event_loop, connected,
                   loop_state, op, co, client, i, all_clients, cancelled, result,
                   calls, used,
                   query_vars, rate_vars>>

\* line 241: all_clients = list(self.available) + list(self.in_use); a set is
\* listed in no particular order
ClSnap(t) ==
    /\ pc[t] = "cl_snap"
    /\ \E o \in Orders(in_use) :
          all_clients' = [all_clients EXCEPT ![t] = available \o o]
    /\ Goto(t, "cl_clear_av")
    /\ UNCHANGED <<pool_vars, op, co, client, i, cancelled, result, calls, used,
                   query_vars, rate_vars>>

\* line 242: self.available.clear()
ClClearAvailable(t) ==
    /\ pc[t] = "cl_clear_av"
    /\ available' = <<>>
    /\ Goto(t, "cl_clear_iu")
    /\ UNCHANGED <<in_use, lock, initialized, event_loop, cleanup_done, connected,
                   loop_state, op, co, client, i, all_clients, cancelled, result,
                   calls, used,
                   query_vars, rate_vars>>

\* line 243: self.in_use.clear()
ClClearInUse(t) ==
    /\ pc[t] = "cl_clear_iu"
    /\ in_use' = {}
    /\ Goto(t, "cl_loop")
    /\ UNCHANGED <<available, lock, initialized, event_loop, cleanup_done, connected,
                   loop_state, op, co, client, i, all_clients, cancelled, result,
                   calls, used,
                   query_vars, rate_vars>>

\* lines 246-254: for client in all_clients: client.connected = False
ClLoop(t) ==
    /\ pc[t] = "cl_loop"
    /\ all_clients[t] # <<>>
    /\ connected' = [connected EXCEPT ![Head(all_clients[t])] = FALSE]
    /\ all_clients' = [all_clients EXCEPT ![t] = Tail(all_clients[t])]
    /\ UNCHANGED <<available, in_use, lock, initialized, event_loop, cleanup_done,
                   loop_state, pc, op, co, client, i, cancelled, result, calls, used,
                   query_vars, rate_vars>>

\* line 257: if self._event_loop and not self._event_loop.is_closed()
ClLoopCheck(t) ==
    /\ pc[t] = "cl_loop"
    /\ all_clients[t] = <<>>
    /\ IF event_loop # 0 /\ loop_state[event_loop] # LoopClosed
         THEN /\ Goto(t, "cl_cancel")
              /\ UNCHANGED result
         ELSE CleanupExit(t)
    /\ UNCHANGED <<pool_vars, op, co, client, i, all_clients, cancelled, calls, used,
                   query_vars, rate_vars>>

\* lines 260-263: task.cancel() on every unfinished task of the loop. The
\* call is made from a thread other than the loop's, which asyncio does not
\* support: the cancellation may reach the running coroutine or be lost.
ClCancel(t) ==
    /\ pc[t] = "cl_cancel"
    /\ IF loop_state[event_loop] \in Threads
         THEN \E hit \in BOOLEAN :
                 cancelled' = [cancelled EXCEPT ![loop_state[event_loop]] = hit \/ @]
         ELSE UNCHANGED cancelled
    /\ Goto(t, "cl_close")
    /\ UNCHANGED <<pool_vars, op, co, client, i, all_clients, result, calls, used,
                   query_vars, rate_vars>>

\* lines 266-268: self._event_loop.close(); closing a running loop raises
\* RuntimeError, which line 267 catches and prints
\* faulty variant: the loop is left open
CloseLoop_open(st) == st

CloseLoop(st) == IF st \in Threads THEN st ELSE LoopClosed

ClClose(t) ==
    /\ pc[t] = "cl_close"
    /\ loop_state' = [loop_state EXCEPT ![event_loop] = CloseLoop(@)]
    /\ CleanupExit(t)
    /\ UNCHANGED <<available, in_use, lock, initialized, event_loop, cleanup_done,
                   connected, op, co, client, i, all_clients, cancelled, calls, used,
                   query_vars, rate_vars>>

----------------------------------------------------------------------------

Next ==
    \E t \in Threads :
       \/ \E o \in Ops : Start(t, o)
       \/ Return(t)
       \/ RaCheck(t)
       \/ RaNew(t)
       \/ RaRun(t)
       \/ Cancelled(t)
       \/ InitCheck(t)
       \/ InitLoop(t)
       \/ InitEnd(t)
       \/ InitSet(t)
       \/ GetLock(t)
       \/ GetCheck(t)
       \/ GetPop(t)
       \/ GetAdd(t)
       \/ QRun(t)
       \/ RetLock(t)
       \/ RetCheck(t)
       \/ RetRemove(t)
       \/ RetConn(t)
       \/ RetAppend(t)
       \/ RcRun(t)
       \/ ClCheck(t)
       \/ ClSet(t)
       \/ ClSnap(t)
       \/ ClClearAvailable(t)
       \/ ClClearInUse(t)
       \/ ClLoop(t)
       \/ ClLoopCheck(t)
       \/ ClCancel(t)
       \/ ClClose(t)

Spec == Init /\ [][Next]_vars

TypeOK ==
    /\ SeqToSet(available) \subseteq Sessions
    /\ in_use \subseteq Sessions
    /\ lock \in 0..NThreads
    /\ event_loop \in 0..Len(loop_state)

\* Every caller thread that can take a step eventually takes one (the
\* interpreter schedules every runnable thread; awaited calls return).
ThreadStep(t) ==
    \/ Return(t) \/ RaCheck(t) \/ RaNew(t) \/ RaRun(t) \/ Cancelled(t)
    \/ InitCheck(t) \/ InitLoop(t) \/ InitEnd(t) \/ InitSet(t)
    \/ GetLock(t) \/ GetCheck(t) \/ GetPop(t) \/ GetAdd(t) \/ QRun(t)
    \/ RetLock(t) \/ RetCheck(t) \/ RetRemove(t) \/ RetConn(t) \/ RetAppend(t)
    \/ RcRun(t)
    \/ ClCheck(t) \/ ClSet(t) \/ ClSnap(t) \/ ClClearAvailable(t)
    \/ ClClearInUse(t) \/ ClLoop(t) \/ ClLoopCheck(t) \/ ClCancel(t) \/ ClClose(t)

FairSpec == Spec /\ \A t \in Threads : WF_vars(ThreadStep(t))

----------------------------------------------------------------------------
(* Properties *)

AvailableSet == SeqToSet(available)

\* thread t is inside process_resume_request with a session it acquired and
\* has not yet given back
Holds(t) == client[t] # 0 /\ pc[t] \notin ReturnLabels

\* the step is one of thread t's
Steps(t) == pc'[t] # pc[t] \/ all_clients'[t] # all_clients[t] \/ i'[t] # i[t]

\* C1: no session is a member of both `available` and `in_use`, in any
\* reachable state of any interleaving of the handlers.
C1_AvailableInUseDisjoint == AvailableSet \cap in_use = {}

\* a release has put a session back while another session is still out
C1_Witness ==
    \E t \in Threads :
        /\ pc[t] = "ret_returned"
        /\ client[t] \in AvailableSet
        /\ in_use # {}

\* C2: |available| + |in_use| never exceeds the capacity pool_size.
C2_WithinCapacity == Len(available) + Cardinality(in_use) <= pool_size

\* C3: releasing a session that is not in `in_use` ends return_client at once
\* with `available` and `in_use` as they were, and `available` never lists a
\* session twice.
C3_ReleaseUnheldIsNoop ==
    /\ [][\A t \in Threads :
            (pc[t] = "ret_check" /\ Steps(t) /\ client[t] \notin in_use)
               => /\ pc'[t] = "ret_noop"
                  /\ available' = available
                  /\ in_use' = in_use]_vars
    /\ [](\A c \in Sessions : Count(available, c) <= 1)

C3_Witness == \E t \in Threads : pc[t] = "ret_noop" /\ client[t] \notin in_use

\* C4: no two in-flight requests hold the same session.
C4_ExclusiveSession ==
    \A t, u \in Threads :
        (t # u /\ Holds(t) /\ Holds(u)) => client[t] # client[u]

\* two requests are in flight, each with a session, one of them running
\* process_query
C4_Witness ==
    \E t, u \in Threads :
        /\ t # u
        /\ Holds(t) /\ Holds(u)
        /\ pc[t] = "q_run"

C6_ReleaseNeverRaises ==
    \A t \in Threads :
        /\ pc[t] # "ret_raised"
        /\ pc[t] = "ret_dropped" => client[t] \notin (AvailableSet \cup in_use)

\* C7: a session is in `in_use` only while the request that acquired it is
\* still running: a request that has returned has left nothing there.
C7_ReleasedOnReturn ==
    \A c \in in_use : \E t \in Threads : Holds(t) /\ client[t] = c

\* a request whose process_query failed has returned its session
C7_Witness ==
    \E t \in Threads :
        /\ pc[t] = "ret_returned"
        /\ result[t] = "err_processing"
        /\ client[t] \notin in_use

\* C8: force_reconnect, run with no other thread around and every connect
\* succeeding, re-initializes: when it returns normally it has made pool_size
\* connect attempts and `available` holds pool_size connected sessions.
C8_ForceReconnectReinitializes ==
    \A t \in Threads :
        (/\ op[t] = "reconnect" /\ pc[t] = "op_return" /\ result[t] = "ok"
         /\ Solo(t)
         /\ Len(connected) >= pool_size)
           => /\ i[t] = pool_size
              /\ Len(available) = pool_size
              /\ \A k \in 1..Len(available) : connected[available[k]]

\* the results of n consecutive get_client calls on a pool whose list is avail
RECURSIVE Acquire(_, _)
Acquire(avail, n) ==
    IF n = 0 THEN <<>>
    ELSE IF NoneAvailable(avail) THEN <<0>> \o Acquire(avail, n - 1)
    ELSE <<PopLast(avail)>> \o Acquire(PopRest(avail), n - 1)

\* C9: initialize_pool run with no other thread around, k of its pool_size
\* connects succeeding: it ends with k sessions in `available`, none in
\* `in_use`, initialized set; k consecutive get_client calls then return a
\* session and the next returns None.
C9_PartialInit ==
    \A t \in Threads :
        (op[t] = "init" /\ pc[t] = "op_return" /\ i[t] = pool_size /\ Solo(t))
           => /\ Len(available) = Len(connected)
              /\ in_use = {}
              /\ initialized
              /\ LET k == Len(connected)
                     r == Acquire(available, k + 1)
                 IN /\ \A j \in 1..k : r[j] # 0
                    /\ r[k + 1] = 0
                    /\ Cardinality({r[j] : j \in 1..k}) = k

\* pool_size 3, two connects failed
C9_Witness ==
    \E t \in Threads :
        /\ op[t] = "init" /\ pc[t] = "op_return" /\ i[t] = pool_size /\ Solo(t)
        /\ Len(available) = 1

\* C10: initialize_pool on a pool whose initialized flag is set returns at
\* once: no connect attempt, nothing of the pool changes.
C10_InitIdempotent ==
    [][\A t \in Threads :
         (pc[t] = "init_check" /\ Steps(t) /\ initialized)
            => /\ pc'[t] = "op_return"
               /\ i'[t] = i[t]
               /\ UNCHANGED pool_vars]_vars

\* initialize_pool was called a second time and returned without connecting
C10_Witness ==
    \E t \in Threads :
        /\ op[t] = "init" /\ pc[t] = "op_return" /\ result[t] = "ok"
        /\ i[t] = 0
        /\ available # <<>>

\* thread t is inside the body of cleanup_pool (past the flag check)
CleanupBody == {"cl_set", "cl_snap", "cl_clear_av", "cl_clear_iu", "cl_loop",
                "cl_cancel", "cl_close"}

C12_NoUseAfterTeardown ==
    \A t \in Threads :
        (pc[t] \in {"q_run", "rc_run"} /\ ~cancelled[t]) => connected[client[t]]

----------------------------------------------------------------------------
(* MCPClient.process_query: the loop between the reasoning service
   (anthropic.messages.create) and the worker's tools (session.call_tool).
   The reasoning service's responses and the tools' results are inputs. *)

max_iterations == 10

\* Bounds on the inputs: tool_use blocks in one response, distinct artifact
\* references, and how many times a run may leave the plain path (one
\* compile_latex request per response, answered with text that has no "url"
\* in it) without ending there
MaxToolCalls == 2
MaxUrl == 2
MaxVariations == 3

\* tools registered by the worker (plugins/latex/__init__.py), two of them
Catalog == {"compile_latex", "get_template"}
ToolNames == Catalog \cup {"no_such_tool"}

TextBlock == [type |-> "text"]
ToolUse(name, id) == [type |-> "tool_use", name |-> name, id |-> id]

\* response.content of call number it: a text block followed by n tool_use
\* blocks, each with an id of its own
Responses(it) ==
    {<<TextBlock>>} \cup
    UNION {{<<TextBlock>> \o [k \in 1..n |-> ToolUse(names[k], <<it, k>>)] :
              names \in [1..n -> ToolNames]} : n \in 1..MaxToolCalls}

\* a Python str (the returned url) as a value
Str(u) == [type |-> "str", value |-> u]

\* result.content[0].text of a tool call: text without "url" in it, a JSON
\* object with a "url" key (compile_latex's CompileResult), or text that has
\* "url" in it and is no such object (a template with \url{..}, an error)
Contents(name) ==
    IF name \in Catalog
      THEN {[kind |-> "plain", url |-> 0], [kind |-> "text_url", url |-> 0]}
              \cup {[kind |-> "json", url |-> u] : u \in 1..MaxUrl}
      ELSE {[kind |-> "plain", url |-> 0]}

\* how far a response, a tool result, is from the plain path
ResponseCost(r) ==
    IF Len(r) = 1 THEN 0
    ELSE (Len(r) - 2)
           + Cardinality({k \in 2..Len(r) : r[k].name # "compile_latex"})

ContentCost(c) == IF c.kind = "json" THEN 1 ELSE 0

\* line 87: tool_calls = [content for content in response.content
\*                        if content.type == 'tool_use']
IsToolUse(b) == b.type = "tool_use"

\* faulty variant: the requests are taken last first
ToolCalls_reversed(r) ==
    LET s == SelectSeq(r, IsToolUse) IN [k \in 1..Len(s) |-> s[Len(s) + 1 - k]]

ToolCalls(r) == SelectSeq(r, IsToolUse)

\* line 109: "url" in tool_content
HasUrl(c) == c.kind # "plain"

\* lines 110-111: json.loads(tool_content)["url"] raises unless the text is a
\* JSON object with that key
Parses(c) == c.kind = "json"

\* line 111: url = tool_content["url"]
\* faulty variant: the first reference captured is kept
Capture_first(u, c) == IF u # 0 THEN u ELSE c.url

Capture(u, c) == c.url

\* line 69: while iteration < max_iterations
\* faulty variant: one round more
LoopGuard_late(it) == it <= max_iterations

LoopGuard(it) == it < max_iterations

\* line 119: return url
\* faulty variant: the response is returned
ReturnValue_response(u, r) == [type |-> "message", content |-> r]

ReturnValue(u, r) == Str(u)

QRaise ==
    /\ qpc' = "raised"
    /\ query_result' = [type |-> "exception"]

\* lines 50-62: the conversation is seeded with the query; list_tools gives
\* the catalog, or raises
QStart ==
    /\ qpc = "start"
    /\ messages' = <<[role |-> "user", content |-> <<TextBlock>>]>>
    /\ \/ /\ available_tools' = Catalog
          /\ qpc' = "loop"
          /\ UNCHANGED query_result
       \/ /\ QRaise
          /\ UNCHANGED available_tools
    /\ UNCHANGED <<iteration, response, tool_calls, tool_result_contents, url,
                   variations, server_vars, rate_vars>>

\* lines 69-70: while iteration < max_iterations: iteration += 1
QLoop ==
    /\ qpc = "loop"
    /\ IF LoopGuard(iteration)
         THEN /\ iteration' = iteration + 1
              /\ qpc' = "create"
         ELSE /\ qpc' = "return"
              /\ UNCHANGED iteration
    /\ UNCHANGED <<messages, available_tools, response, tool_calls,
                   tool_result_contents, url, query_result, variations,
                   server_vars, rate_vars>>

\* lines 73-94: one call of the reasoning service; its response is appended
\* as the assistant message; without tool_use blocks the loop is left
QCreate ==
    /\ qpc = "create"
    /\ \/ \E r \in Responses(iteration) :
             /\ variations + ResponseCost(r) <= MaxVariations
             /\ variations' = variations + ResponseCost(r)
             /\ response' = r
             /\ messages' = Append(messages, [role |-> "assistant", content |-> r])
             /\ tool_calls' = ToolCalls(r)
             /\ IF ToolCalls(r) = <<>>
                  THEN /\ qpc' = "return"
                       /\ UNCHANGED tool_result_contents
                  ELSE /\ qpc' = "tool"
                       /\ tool_result_contents' = <<>>
             /\ UNCHANGED query_result
       \/ /\ QRaise
          /\ UNCHANGED <<messages, response, tool_calls, tool_result_contents,
                         variations>>
    /\ UNCHANGED <<available_tools, iteration, url, server_vars, rate_vars>>

\* lines 95-111: the next tool call of the round. Whatever name the response
\* gave goes to session.call_tool; its text is appended as a tool_result; a
\* text with "url" in it is parsed and its url kept
QTool ==
    /\ qpc = "tool"
    /\ tool_calls # <<>>
    /\ LET content == Head(tool_calls) IN
       \/ \E tool_content \in Contents(content.name) :
             /\ variations + ContentCost(tool_content) <= MaxVariations
             /\ variations' = variations + ContentCost(tool_content)
             /\ tool_result_contents' =
                   Append(tool_result_contents,
                          [type |-> "tool_result", tool_use_id |-> content.id,
                           content |-> tool_content])
             /\ tool_calls' = Tail(tool_calls)
             /\ IF HasUrl(tool_content)
                  THEN IF Parses(tool_content)
                         THEN /\ url' = Capture(url, tool_content)
                              /\ UNCHANGED <<qpc, query_result>>
                         ELSE /\ QRaise
                              /\ UNCHANGED url
                  ELSE UNCHANGED <<qpc, query_result, url>>
       \/ /\ QRaise
          /\ UNCHANGED <<tool_calls, tool_result_contents, url, variations>>
    /\ UNCHANGED <<messages, available_tools, iteration, response,
                   server_vars, rate_vars>>

\* lines 114-118: the round's results go back as one user message
QFollowUp ==
    /\ qpc = "tool"
    /\ tool_calls = <<>>
    /\ messages' = Append(messages, [role |-> "user", content |-> tool_result_contents])
    /\ qpc' = "loop"
    /\ UNCHANGED <<available_tools, iteration, response, tool_calls,
                   tool_result_contents, url, query_result, variations,
                   server_vars, rate_vars>>

\* line 119: return url
QReturn ==
    /\ qpc = "return"
    /\ query_result' = ReturnValue(url, response)
    /\ qpc' = "done"
    /\ UNCHANGED <<messages, available_tools, iteration, response, tool_calls,
                   tool_result_contents, url, variations, server_vars, rate_vars>>

QueryNext ==
    \/ QStart
    \/ QLoop
    \/ QCreate
    \/ QTool
    \/ QFollowUp
    \/ QReturn

QuerySpec == Init /\ [][QueryNext]_vars

\* the awaited calls return and the coroutine is run to its end
QueryFairSpec == QuerySpec /\ WF_vars(QueryNext)

----------------------------------------------------------------------------
(* Properties of process_query *)

AssistantMessages ==
    Cardinality({k \in 1..Len(messages) : messages[k].role = "assistant"})

Ended == qpc \in {"done", "raised"}

\* C13: process_query ends for every sequence of responses, and makes at most
\* max_iterations (10) calls of the reasoning service: each call is made with
\* fewer than 10 earlier responses in the conversation.
C13_TerminatesWithinTenCalls ==
    /\ [](iteration <= max_iterations /\ AssistantMessages <= iteration)
    /\ [][qpc = "create" /\ qpc' # "create"
             => AssistantMessages < max_iterations]_vars
    /\ <>Ended

\* ten responses were received and the call returned
C13_Witness == qpc = "done" /\ AssistantMessages = max_iterations

\* the artifact reference of the last tool result, in conversation order,
\* that carried one; u when there is none
RECURSIVE LastUrlIn(_, _)
LastUrlIn(blocks, u) ==
    IF blocks = <<>> THEN u
    ELSE LET b == Head(blocks) IN
         LastUrlIn(Tail(blocks),
                   IF b.type = "tool_result" /\ b.content.kind = "json"
                     THEN b.content.url ELSE u)

RECURSIVE LastUrl(_)
LastUrl(msgs) ==
    IF msgs = <<>> THEN 0
    ELSE LastUrlIn(msgs[Len(msgs)].content, LastUrl(SubSeq(msgs, 1, Len(msgs) - 1)))

\* the latest response asked for no tool
NoToolRequests == response # <<>> /\ ToolCalls(response) = <<>>

\* C14 (as claimed): when a response holds no tool request, the loop is done
\* and the value returned is that response itself.
C14_ReturnsResponse ==
    (qpc = "done" /\ NoToolRequests)
       => query_result = [type |-> "message", content |-> response]

\* C14 (amended): when a response holds no tool request, the loop is done
\* and the value returned is the artifact reference captured last in the
\* earlier rounds, the empty string when none was captured.
C14_ReturnsCapturedUrl ==
    NoToolRequests
       => /\ qpc \in {"return", "done"}
          /\ qpc = "done" => query_result = Str(LastUrl(messages))

\* a reference was captured in an earlier round, and the last response asked
\* for no tool
C14_Witness ==
    /\ qpc = "done"
    /\ NoToolRequests
    /\ LastUrl(messages) # 0
    /\ query_result = Str(LastUrl(messages))

\* max_iterations responses were received, every one asked for tools and
\* every round was answered
TenToolRounds ==
    /\ iteration = max_iterations
    /\ Len(messages) = 1 + 2 * max_iterations

\* C15: after max_iterations (10) rounds that all asked for tools the loop
\* stops without raising and returns the artifact reference of the tool
\* result processed last among those that carried one (within a round the
\* later tool call wins), the empty string when none did.
C15_BoundReturnsLastUrl ==
    TenToolRounds
       => /\ qpc \in {"loop", "return", "done"}
          /\ qpc = "done" => query_result = Str(LastUrl(messages))

\* ten tool rounds, one of them with two results carrying different
\* references: the later one is returned
C15_Witness ==
    /\ qpc = "done"
    /\ TenToolRounds
    /\ \E k \in 2..Len(messages) :
          LET m == messages[k] IN
          /\ m.role = "user"
          /\ Len(m.content) = 2
          /\ m.content[1].content.kind = "json"
          /\ m.content[2].content.kind = "json"
          /\ m.content[1].content.url # m.content[2].content.url
          /\ query_result = Str(m.content[2].content.url)

\* C16: a request for a tool that is not in the catalog makes the loop fail:
\* its outcome is never appended as a tool result, so every assistant message
\* that was followed by a tool-result message asked for catalog tools only.
C16_UnknownToolFails ==
    \A k \in 1..(Len(messages) - 1) :
        messages[k].role = "assistant"
           => \A j \in 1..Len(messages[k].content) :
                 LET b == messages[k].content[j] IN
                 IsToolUse(b) => b.name \in available_tools

----------------------------------------------------------------------------
(* check_rate_limit of app.py: the sliding-window limiter of /tailor_resume.
   tailor_resume is a plain `def`, so concurrent requests run it on separate
   worker threads; it takes no lock. *)

RATE_LIMIT_WINDOW == 60
RATE_LIMIT_MAX_REQUESTS == 10

\* Bounds: the clock moves in steps of TickSize seconds up to MaxClock
TickSize == 20
MaxClock == 80

\* line 36: now - req_time < RATE_LIMIT_WINDOW
\* faulty variant: nothing ever expires
Fresh_always(n, req_time) == TRUE

Fresh(n, req_time) == n - req_time < RATE_LIMIT_WINDOW

\* lines 35-36: the list without its expired entries
RECURSIVE Prune(_, _)
Prune(s, n) ==
    IF s = <<>> THEN <<>>
    ELSE IF Fresh(n, Head(s)) THEN <<Head(s)>> \o Prune(Tail(s), n)
    ELSE Prune(Tail(s), n)

\* line 39: len(request_counts[client_ip]) >= RATE_LIMIT_MAX_REQUESTS
AtLimit(s) == Len(s) >= RATE_LIMIT_MAX_REQUESTS

\* time passes
Tick ==
    /\ clock + TickSize <= MaxClock
    /\ clock' = clock + TickSize
    /\ UNCHANGED <<request_counts, rpc, client_ip, now, admitted, server_vars,
                   query_vars, handler_vars>>

\* lines 31-33: caller t enters check_rate_limit(ip) and reads the clock
RlEnter(t, ip) ==
    /\ rpc[t] = "idle"
    /\ rpc' = [rpc EXCEPT ![t] = "rl_prune"]
    /\ client_ip' = [client_ip EXCEPT ![t] = ip]
    /\ now' = [now EXCEPT ![t] = clock]
    /\ admitted' = [admitted EXCEPT ![t] = "none"]
    /\ UNCHANGED <<request_counts, clock, server_vars, query_vars,
                   handler_vars>>

\* lines 35-36: request_counts[client_ip] = [the entries still in the window]
RlPrune(t) ==
    /\ rpc[t] = "rl_prune"
    /\ request_counts' = [request_counts EXCEPT
                            ![client_ip[t]] = Prune(@, now[t])]
    /\ rpc' = [rpc EXCEPT ![t] = "rl_check"]
    /\ UNCHANGED <<clock, client_ip, now, admitted, server_vars, query_vars,
                   handler_vars>>

\* lines 39-40: at the limit the call returns False
RlCheck(t) ==
    /\ rpc[t] = "rl_check"
    /\ IF AtLimit(request_counts[client_ip[t]])
         THEN /\ admitted' = [admitted EXCEPT ![t] = "rejected"]
              /\ rpc' = [rpc EXCEPT ![t] = "idle"]
         ELSE /\ rpc' = [rpc EXCEPT ![t] = "rl_append"]
              /\ UNCHANGED admitted
    /\ UNCHANGED <<request_counts, clock, client_ip, now, server_vars, query_vars,
                   handler_vars>>

\* lines 43-44: request_counts[client_ip].append(now); return True
RlAppend(t) ==
    /\ rpc[t] = "rl_append"
    /\ request_counts' = [request_counts EXCEPT
                            ![client_ip[t]] = Append(@, now[t])]
    /\ admitted' = [admitted EXCEPT ![t] = "admitted"]
    /\ rpc' = [rpc EXCEPT ![t] = "idle"]
    /\ UNCHANGED <<clock, client_ip, now, server_vars, query_vars,
                   handler_vars>>

RateStep(t) ==
    \/ \E ip \in Addresses : RlEnter(t, ip)
    \/ RlPrune(t)
    \/ RlCheck(t)
    \/ RlAppend(t)

\* calls made one after the other
RateNext == RateStep(1) \/ Tick

RateSpec == Init /\ [][RateNext]_vars

\* calls made by concurrent requests
ConcurrentRateNext == (\E t \in Threads : RateStep(t)) \/ Tick

ConcurrentRateSpec == Init /\ [][ConcurrentRateNext]_vars

----------------------------------------------------------------------------
(* Properties of check_rate_limit *)

\* the admissions of ip recorded inside the window that ends at time n
InWindow(ip, n) ==
    Cardinality({k \in 1..Len(request_counts[ip]) :
                   n - request_counts[ip][k] < RATE_LIMIT_WINDOW})

\* caller t's call returns with this step
RlReturns(t) == rpc[t] # "idle" /\ rpc'[t] = "idle"

\* C17: for calls made one after the other, a call is rejected exactly when
\* RATE_LIMIT_MAX_REQUESTS (10) admissions lie within the RATE_LIMIT_WINDOW
\* (60 s) before it, and then records nothing; otherwise (in particular once
\* the earlier admissions are older than the window) it is admitted and its
\* time is recorded. The record never holds more than 10 admissions.
C17_SequentialAdmission ==
    /\ [](\A ip \in Addresses :
            Len(request_counts[ip]) <= RATE_LIMIT_MAX_REQUESTS)
    /\ [][\A t \in Threads :
            RlReturns(t) =>
               LET ip == client_ip[t] IN
               IF InWindow(ip, now[t]) >= RATE_LIMIT_MAX_REQUESTS
                 THEN /\ admitted'[t] = "rejected"
                      /\ InWindow(ip, now[t]) = RATE_LIMIT_MAX_REQUESTS
                      /\ request_counts' = request_counts
                 ELSE /\ admitted'[t] = "admitted"
                      /\ request_counts'[ip] = Append(request_counts[ip], now[t])
                      /\ InWindow(ip, now[t]) = Len(request_counts[ip])]_vars

\* a call rejected late in the run: ten admissions lie in its window, the
\* latest of them made at the same instant
C17_Witness ==
    \E t \in Threads :
        /\ admitted[t] = "rejected"
        /\ InWindow(client_ip[t], now[t]) = RATE_LIMIT_MAX_REQUESTS
        /\ now[t] >= RATE_LIMIT_WINDOW + TickSize
        /\ \E k \in 1..Len(request_counts[client_ip[t]]) :
              request_counts[client_ip[t]][k] = now[t]

\* C18: for concurrent calls for one address the record never holds more
\* than RATE_LIMIT_MAX_REQUESTS (10) admissions inside one window.
C18_ConcurrentWithinThreshold ==
    \A ip \in Addresses : InWindow(ip, clock) <= RATE_LIMIT_MAX_REQUESTS

----------------------------------------------------------------------------
(* Properties of _run_async *)

\* thread t's coroutine is running on an event loop
InFlight(t) == pc[t] \in {"init_loop", "q_run", "rc_run"}

\* C19: the event loop is created at most once, also when two threads make
\* their first _run_async call at the same time, and every coroutine in
\* flight runs on that one loop.
C19_OneEventLoop ==
    /\ Len(loop_state) <= 1
    /\ \A t \in Threads : InFlight(t) => loop_state[event_loop] = t

\* C20: two threads holding different sessions can both have a coroutine in
\* flight: a thread that holds a session and calls run_until_complete while
\* the coroutine of another session's holder is running gets its own
\* coroutine started, it is not refused.
C20_ConcurrentBridgeCalls ==
    [][\A t, u \in Threads :
         (/\ pc[t] = "ra_run" /\ Steps(t)
          /\ Holds(t) /\ Holds(u) /\ client[t] # client[u]
          /\ InFlight(u) /\ loop_state[event_loop] = u)
            => pc'[t] = FirstCoLabel(co[t])]_vars

----------------------------------------------------------------------------
(* tailor_resume of app.py, one caller at a time: check_rate_limit, the
   field check, process_resume_request and the answer made of its result.
   What process_resume_request hands back is an input here, one of the
   results it has in the pool specification above. Strings are sequences of
   pieces, cut so that the prefix test of line 64 is a test on pieces. *)

PoolResults == {"no_conn", "url", "err_processing", "raised"}

\* client.py lines 202, 226, 229: the string process_resume_request returns
ResultText(r) ==
    CASE r = "no_conn" ->
            <<"Error", ":", " No available MCP connections. Please try again.">>
      [] r = "err_processing" -> <<"Error", " processing resume: ", "detail">>
      [] r = "url" -> <<"http://host/latex/compiled/doc.pdf">>
      [] OTHER -> <<>>

\* str.startswith
StartsWith(s, prefix) ==
    /\ Len(s) >= Len(prefix)
    /\ SubSeq(s, 1, Len(prefix)) = prefix

\* raise HTTPException(status_code, detail); str() of it is "status: detail"
HTTPException(status_code, detail) ==
    [raised |-> TRUE, status |-> status_code,
     text |-> <<ToString(status_code), ": ">> \o detail]

\* lines 53-67: the body of the try block
TryBlock(allowed, valid, r) ==
    IF ~allowed
      THEN HTTPException(429, <<"Rate limit exceeded. Please try again later.">>)
    ELSE IF ~valid
      THEN HTTPException(400, <<"Missing resume_data or job_description">>)
    ELSE IF r = "raised"
      THEN [raised |-> TRUE, status |-> 0, text |-> <<"KeyError">>]
    ELSE IF StartsWith(ResultText(r), <<"Error", ":">>)
      THEN HTTPException(503, ResultText(r))
    ELSE [raised |-> FALSE, status |-> 200, text |-> ResultText(r)]

\* lines 69-70: except Exception as e: raise HTTPException(500, str(e)).
\* HTTPException is an Exception, so the ones raised in the try block are
\* caught here too; FastAPI answers with the status of what leaves the handler
TailorResume(allowed, valid, r) ==
    LET e == TryBlock(allowed, valid, r) IN
    IF e.raised THEN [status |-> 500, body |-> e.text]
    ELSE [status |-> e.status, body |-> e.text]

\* lines 54-55: the handler starts with check_rate_limit(client_ip)
TrEnter(t, ip) ==
    /\ admitted[t] = "none"
    /\ RlEnter(t, ip)

\* lines 55-70: check_rate_limit has returned; the rest of the handler.
\* process_resume_request is called only for an admitted request with both
\* fields present
TrRespond(t) ==
    /\ rpc[t] = "idle"
    /\ admitted[t] # "none"
    /\ http_response[t].status = 0
    /\ \E valid \in BOOLEAN, r \in PoolResults \cup {"none"} :
          /\ (r = "none") <=> ~(admitted[t] = "admitted" /\ valid)
          /\ condition' = [condition EXCEPT
                             ![t] = [valid |-> valid, pool |-> r]]
          /\ http_response' = [http_response EXCEPT
                ![t] = TailorResume(admitted[t] = "admitted", valid, r)]
    /\ UNCHANGED <<request_counts, clock, rpc, client_ip, now, admitted,
                   server_vars, query_vars>>

\* the answer is sent; the handler's locals die
TrReturn(t) ==
    /\ http_response[t].status # 0
    /\ http_response' = [http_response EXCEPT ![t] = [status |-> 0, body |-> <<>>]]
    /\ condition' = [condition EXCEPT ![t] = [valid |-> TRUE, pool |-> "none"]]
    /\ admitted' = [admitted EXCEPT ![t] = "none"]
    /\ UNCHANGED <<request_counts, clock, rpc, client_ip, now, server_vars,
                   query_vars>>

TailorNext ==
    \/ \E ip \in Addresses : TrEnter(1, ip)
    \/ RlPrune(1)
    \/ RlCheck(1)
    \/ RlAppend(1)
    \/ TrRespond(1)
    \/ TrReturn(1)
    \/ Tick

TailorSpec == Init /\ [][TailorNext]_vars

\* C21: the answer matches what happened: a rate-limit rejection is answered
\* 429, pool exhaustion 503, a failure of the reasoning service or of a tool
\* (or any other exception) an error status, and status 200 is given to
\* nothing but an artifact reference.
C21_OutcomeMatchesCondition ==
    \A t \in Threads :
        http_response[t].status # 0
           => /\ admitted[t] = "rejected" => http_response[t].status = 429
              /\ condition[t].pool = "no_conn" => http_response[t].status = 503
              /\ condition[t].pool \in {"err_processing", "raised"}
                    => http_response[t].status >= 400
              /\ http_response[t].status = 200 => condition[t].pool = "url"

----------------------------------------------------------------------------
(* Properties of a tool round of process_query *)

\* the tool_use blocks of an assistant message, in the order given
Requests(content) == SelectSeq(content, IsToolUse)

\* results answers the first Len(results) of the requests, in order, each
\* tagged with the id of its request
Answers(results, requests) ==
    /\ Len(results) <= Len(requests)
    /\ \A k \in 1..Len(results) :
          /\ results[k].type = "tool_result"
          /\ results[k].tool_use_id = requests[k].id

\* C22: in a round with n >= 1 tool requests the tools are run one at a time
\* in the order requested, and one user message is appended that holds the n
\* results in that order, the i-th tagged with the id of the i-th request; so
\* after the seed the conversation alternates assistant message and
\* tool-result message.
C22_ToolRoundOrder ==
    /\ \A k \in 1..Len(messages) :
          messages[k].role = IF k > 1 /\ k % 2 = 0 THEN "assistant" ELSE "user"
    /\ \A k \in 3..Len(messages) :
          messages[k].role = "user"
             => LET requests == Requests(messages[k - 1].content) IN
                /\ Len(requests) >= 1
                /\ Len(messages[k].content) = Len(requests)
                /\ Answers(messages[k].content, requests)
    /\ qpc = "tool"
          => LET requests == Requests(response) IN
             /\ Answers(tool_result_contents, requests)
             /\ tool_calls = SubSeq(requests, Len(tool_result_contents) + 1,
                                    Len(requests))

\* two rounds were answered, one of them with two requests
C22_Witness ==
    /\ Len(messages) >= 5
    /\ \E k \in 3..Len(messages) :
          messages[k].role = "user" /\ Len(messages[k].content) = 2

----------------------------------------------------------------------------
(* Properties of cleanup_pool against concurrent requests *)

\* thread t's cleanup_resources has returned, and every other thread is
\* outside its handler or at the end of it
ShutdownReturned(t) ==
    /\ op[t] = "cleanup" /\ pc[t] = "op_return"
    /\ \A u \in Threads \ {t} : pc[u] \in {"idle"} \cup ReturnLabels

\* C23: once cleanup_pool has returned and every get_client / return_client
\* that overlapped it has finished, `available` and `in_use` are empty and
\* every session is disconnected; in particular no session that cleanup_pool
\* marked disconnected is in `available` or `in_use` (which a session added
\* by an initialize_pool running at the same time would not be).
C23_EmptyAfterShutdown ==
    \A t \in Threads :
        ShutdownReturned(t)
           => \A c \in AvailableSet \cup in_use : connected[c]

====
